---- MODULE Spec2Model ----
(***************************************************************************)
(* A model of scripts/get_pomological_data.py: the scraper of the USDA     *)
(* Pomological Watercolors collection.  One run of main() is a state       *)
(* machine: main prints and calls get_pomological_data, which fetches one  *)
(* page per offset, extracts one single-row frame per cell, concatenates   *)
(* the frames, writes the csv file, prints the notice and returns.         *)
(*                                                                         *)
(* Strings are sequences of one-character strings, so that split, replace  *)
(* and slicing are computed as Python computes them.  Python's None is the *)
(* one-element sequence NoneVal, which no character sequence equals.       *)
(***************************************************************************)
EXTENDS Integers, Sequences, FiniteSets, TLC

(***************************************************************************)
(* Bounds of the model.                                                    *)
(***************************************************************************)
\* the largest number of pages one run fetches
MaxPages == 2
\* the largest number of cells in a results container
MaxCells == 2
\* the largest number of elements one class marker matches inside a cell
MaxMatches == 3
\* the largest number of chunks an image source attribute is built from
MaxChunks == 3

(***************************************************************************)
(* Program constants.                                                      *)
(***************************************************************************)
\* the step of range(start, end, 20)
Stride == 20
\* the slice [3:] applied to the src attribute
SrcSkip == 3

IMG_PREFIX == <<"h", "t", "t", "p", "s", ":", "/", "/", "n", "a", "l", "d", "c", "-", "l", "e", "g", "a", "c", "y", ".", "n", "a", "l", ".", "u", "s", "d", "a", ".", "g", "o", "v", "/">>
Thumbnail == <<"t", "h", "u", "m", "b", "n", "a", "i", "l">>
Screen == <<"s", "c", "r", "e", "e", "n">>
Newline == <<"\n">>
Tab == <<"\t">>
Dot == "."

NoneVal == <<"None">>

(***************************************************************************)
(* Python's string and list operations.                                    *)
(***************************************************************************)
RECURSIVE StrReplace(_, _, _)
\* str.replace(old, new): every non-overlapping occurrence, left to right
StrReplace(s, old, new) ==
  IF Len(s) < Len(old) THEN s
  ELSE IF SubSeq(s, 1, Len(old)) = old
       THEN new \o StrReplace(SubSeq(s, Len(old) + 1, Len(s)), old, new)
       ELSE <<s[1]>> \o StrReplace(Tail(s), old, new)

RECURSIVE SplitFrom(_, _, _)
SplitFrom(s, sep, cur) ==
  IF s = <<>> THEN <<cur>>
  ELSE IF s[1] = sep THEN <<cur>> \o SplitFrom(Tail(s), sep, <<>>)
       ELSE SplitFrom(Tail(s), sep, Append(cur, s[1]))

\* str.split(sep) for a one-character separator: at least one segment
StrSplit(s, sep) == SplitFrom(s, sep, <<>>)

\* s[k:]
StrFrom(s, k) == IF Len(s) <= k THEN <<>> ELSE SubSeq(s, k + 1, Len(s))

\* .replace('\n', '').replace('\t', '')
StripNT(s) == StrReplace(StrReplace(s, Newline, <<>>), Tab, <<>>)

\* whether list[i] (0-based) raises IndexError
Raises(list, i) == i + 1 \notin DOMAIN list

\* try: v = list[i]  except: v = None
TryIndex(list, i) == IF Raises(list, i) THEN NoneVal ELSE list[i + 1]

(***************************************************************************)
(* The texts, cells and pages the site may serve.                          *)
(***************************************************************************)
TxtIndexOnly == <<"5", "6", "7", "8">>
TxtIndexFruit == <<"1", "2", "3", "4", ".", "A", "p", "p", "l", "e">>
TxtPadded == <<"\n", "\t", "1", "2", "\n", ".", "P", "e", "a", "r", "\t">>
TxtThree == <<"7", ".", "a", ".", "b">>
TxtLabel == <<"L", "a", "b", "e", "l", ":">>
TxtDataA == <<"A", "\n", "B">>
TxtDataB == <<"1", "9", "1", "0", "\t">>
TxtExtra == <<"e", "t", "c">>
ChunkRel == <<".", ".", "/", "i", "m", "a", "g", "e", "s", "/">>
ChunkSlash == <<"/">>
ChunkFile == <<"/", "x", ".", "j", "p", "g">>
ChunkThumb == <<"t", "h", "u", "m", "b">>
SrcExample == ChunkRel \o Thumbnail \o ChunkFile

\* the texts of the elements matching blacklight-extent_format_facet
NameLists ==
  {<<>>}
    \cup {<<t>> : t \in {TxtIndexOnly, TxtIndexFruit, TxtPadded, TxtThree, <<>>, <<Dot>>}}
    \cup {<<TxtIndexFruit, TxtIndexOnly>>}

\* the texts of the elements matching an author, subject or year marker:
\* a label, then the value, then whatever else the markup repeats
MatchLists ==
  {<<>>, <<TxtLabel>>}
    \cup {[i \in 1..n |-> IF i = 1 THEN TxtLabel ELSE IF i = 2 THEN d ELSE TxtExtra] :
            n \in 2..MaxMatches, d \in {TxtDataA, TxtDataB}}

Chunks == {ChunkRel, Thumbnail, ChunkSlash, ChunkFile, ChunkThumb}

RECURSIVE Concats(_)
\* the concatenations of at most n chunks
Concats(n) ==
  IF n = 0 THEN {<<>>}
  ELSE LET shorter == Concats(n - 1)
       IN  shorter \cup {s \o c : s \in shorter, c \in Chunks}

Srcs == Concats(MaxChunks)

ImgTag(src) == [hasSrc |-> TRUE, src |-> src]
ImgNoSrc == [hasSrc |-> FALSE, src |-> <<>>]

\* an element matching blacklight-specimen_identifier_s: its nested img tags
SpecimenLabel == <<>>
SpecimenWith(src) == <<SpecimenLabel, <<ImgTag(src)>>>>

\* the specimen-identifier elements of a cell, as lists of nested img tags
ImageLists ==
  { <<>>, <<SpecimenLabel>>, <<SpecimenLabel, <<>>>>, <<SpecimenLabel, <<ImgNoSrc>>>>,
    SpecimenWith(SrcExample),
    <<<<ImgTag(ChunkFile)>>, <<ImgTag(SrcExample), ImgTag(ChunkRel)>>, <<ImgTag(ChunkFile)>>>> }

Cell(n, a, s, y, i) == [name |-> n, author |-> a, subject |-> s, year |-> y, specimen |-> i]

WellFormedCell ==
  Cell(<<TxtIndexFruit>>, <<TxtLabel, TxtDataA>>, <<TxtLabel, TxtDataA>>,
       <<TxtLabel, TxtDataB>>, SpecimenWith(SrcExample))
SparseCell == Cell(<<TxtIndexOnly>>, <<>>, <<TxtLabel>>, <<>>, SpecimenWith(ChunkRel \o ChunkFile))
NoImageCell == [WellFormedCell EXCEPT !.specimen = <<SpecimenLabel>>]

\* the cells of the multi-page runs
SiteCells == {WellFormedCell, SparseCell, NoImageCell}

\* the cells of the one-cell runs: every combination of the five lookups
\* over one image source, and every image source over one cell
ProbeCells ==
  {Cell(n, a, s, y, i) : n \in NameLists, a \in MatchLists, s \in MatchLists,
                         y \in MatchLists, i \in ImageLists}
    \cup {[WellFormedCell EXCEPT !.specimen = SpecimenWith(src)] : src \in Srcs}

RECURSIVE SeqsUpTo(_, _)
SeqsUpTo(S, n) ==
  IF n = 0 THEN {<<>>}
  ELSE LET shorter == SeqsUpTo(S, n - 1)
       IN  shorter \cup {Append(q, x) : q \in shorter, x \in S}

\* a response: whether requests.get raised, the status, and the cells of
\* each div.grid_12 of the body
Response(r, st, cs) == [raises |-> r, status |-> st, containers |-> cs]

Bodies ==
  {<<>>}
    \cup {<<cells>> : cells \in SeqsUpTo(SiteCells, MaxCells)}
    \cup {<<<<SparseCell>>, <<WellFormedCell>>>>}

\* the bodies served with a non-success status
ErrorBodies == {<<>>, <<<<WellFormedCell>>>>, <<<<NoImageCell>>>>}

Responses ==
  {Response(TRUE, 0, <<>>)}
    \cup {Response(FALSE, 200, b) : b \in Bodies}
    \cup {Response(FALSE, 404, b) : b \in ErrorBodies}

ProbeResponses == {Response(FALSE, 200, <<<<c, WellFormedCell>>>>) : c \in ProbeCells}

(***************************************************************************)
(* The state of one run.                                                   *)
(***************************************************************************)
VARIABLES
  start,          \* argument start
  end,            \* argument end
  csv_name,       \* argument csv_name
  verbose,        \* argument verbose
  pc,             \* where the run is: main, loop, to_csv, print, done, raised
  img_num,        \* the loop variable of range(start, end, 20)
  all_pomo_data,  \* the list of single-row frames
  all_pomo_df,    \* the concatenated frame, unbound before pd.concat
  file,           \* the csv file on disk
  writes,         \* how many times the csv file was written
  stdout,         \* the lines printed
  retval,         \* what main returned to its caller
  exception,      \* the exception that ended the run, "" when none
  fetched         \* the requests issued so far, each with its response

vars == <<start, end, csv_name, verbose, pc, img_num, all_pomo_data, all_pomo_df,
          file, writes, stdout, retval, exception, fetched>>

PyNone == [kind |-> "None", rows |-> <<>>]
Unbound == [kind |-> "unbound", rows |-> <<>>]
DataFrame(rows) == [kind |-> "DataFrame", rows |-> rows]
NoFile == [exists |-> FALSE, path |-> "", header |-> <<>>, rows |-> <<>>]

Starts == {0, 5}
Ends == {Stride * k : k \in 0..MaxPages} \cup {Stride * MaxPages - 15}
\* the command lines tried: the defaults, and a quiet run to another file
Options ==
  {[csv_name |-> "usda_pomological_watercolors.csv", verbose |-> 1],
   [csv_name |-> "fruits.csv", verbose |-> 0]}

\* len(range(start, end, 20))
RangeLen(a, b) == IF b <= a THEN 0 ELSE (b - a + Stride - 1) \div Stride

(***************************************************************************)
(* Extraction of one cell.                                                 *)
(***************************************************************************)
\* img.find_all(class_="blacklight-extent_format_facet")[0].text
\*    .replace('\n', '').replace('\t', '').split('.')
NameInfo(img) == StrSplit(StripNT(img.name[1]), Dot)

PaintingNum(name_info) == TryIndex(name_info, 0)

\* the last segment, name_info[-1]
FruitLast(name_info) == name_info[Len(name_info)]


Fruit(name_info) == TryIndex(name_info, 1)

\* the first match, which is the label
AuthorsFirst(img) == TryIndex(img.author, 0)


Authors(img) == TryIndex(img.author, 1)

Subjects(img) ==
  IF Raises(img.subject, 1) THEN NoneVal ELSE StripNT(img.subject[2])

Year(img) ==
  IF Raises(img.year, 1) THEN NoneVal ELSE StripNT(img.year[2])

\* IMG_PREFIX + img_link[1].find_all('img')[0]['src'][3:]
ThumbnailImage(img) == IMG_PREFIX \o StrFrom(img.specimen[2][1].src, SrcSkip)

\* str.replace(old, new, 1): the first occurrence only
StrReplaceFirst(s, old, new) ==
  IF \E i \in 1..Len(s) : i + Len(old) - 1 <= Len(s) /\ SubSeq(s, i, i + Len(old) - 1) = old
  THEN LET i == CHOOSE k \in 1..Len(s) :
                  /\ k + Len(old) - 1 <= Len(s)
                  /\ SubSeq(s, k, k + Len(old) - 1) = old
                  /\ \A m \in 1..(k - 1) : SubSeq(s, m, m + Len(old) - 1) # old
       IN  SubSeq(s, 1, i - 1) \o new \o SubSeq(s, i + Len(old), Len(s))
  ELSE s

ImageFirstOnly(thumbnail_image) == StrReplaceFirst(thumbnail_image, Thumbnail, Screen)


Image(thumbnail_image) == StrReplace(thumbnail_image, Thumbnail, Screen)

\* the exception the name lookup raises, "" when none
NameError(img) == IF Raises(img.name, 0) THEN "IndexError" ELSE ""

\* the exception the image lookup raises, "" when none
ImageError(img) ==
  IF Raises(img.specimen, 1) THEN "IndexError"
  ELSE IF Raises(img.specimen[2], 0) THEN "IndexError"
  ELSE IF ~img.specimen[2][1].hasSrc THEN "KeyError"
  ELSE ""

NoRow ==
  [painting_index |-> NoneVal, fruit |-> NoneVal, authors |-> NoneVal, subjects |-> NoneVal,
   year |-> NoneVal, image |-> NoneVal, thumbnail_image |-> NoneVal]

\* the body of "for img in cells": the exception it raises, or the dict
ExtractCell(img) ==
  IF NameError(img) # "" THEN [exc |-> NameError(img), row |-> NoRow]
  ELSE IF ImageError(img) # "" THEN [exc |-> ImageError(img), row |-> NoRow]
  ELSE LET name_info == NameInfo(img)
           thumbnail_image == ThumbnailImage(img)
       IN  [exc |-> "",
            row |-> [painting_index |-> PaintingNum(name_info),
                     fruit |-> Fruit(name_info),
                     authors |-> Authors(img),
                     subjects |-> Subjects(img),
                     year |-> Year(img),
                     image |-> Image(thumbnail_image),
                     thumbnail_image |-> thumbnail_image]]

\* pd.DataFrame(wc_painting, index=[0])
SingleRowFrame(row) == <<[index |-> 0, row |-> row]>>

\* a list that grows at its front
ListPrepend(list, wc_df) == <<wc_df>> \o list

\* all_pomo_data.append(wc_df)
ListAppend(list, wc_df) == Append(list, wc_df)

RECURSIVE ExtractCells(_, _)
\* "for img in cells": stops at the first cell that raises
ExtractCells(cells, data) ==
  IF cells = <<>> THEN [exc |-> "", data |-> data]
  ELSE LET r == ExtractCell(Head(cells))
       IN  IF r.exc # "" THEN [exc |-> r.exc, data |-> data]
           ELSE ExtractCells(Tail(cells), ListAppend(data, SingleRowFrame(r.row)))

\* a fetch followed by page.raise_for_status()
FetchRaisesForStatus(resp) == resp.raises \/ resp.status \notin 200..299

\* whether requests.get(current_url) raises
FetchRaises(resp) == resp.raises

\* search_results[0].find_all(class_="document blacklight-pdf")
CellsOf(search_results) == search_results[1]

\* a loop that skips a page without a results container
PageOutcomeSkipping(resp, data) ==
  IF FetchRaises(resp) THEN [exc |-> "ConnectionError", data |-> data]
  ELSE IF Raises(resp.containers, 0) THEN [exc |-> "", data |-> data]
  ELSE ExtractCells(CellsOf(resp.containers), data)

\* one iteration of "for img_num in range(start, end, 20)"
PageOutcome(resp, data) ==
  IF FetchRaises(resp) THEN [exc |-> "ConnectionError", data |-> data]
  ELSE IF Raises(resp.containers, 0) THEN [exc |-> "IndexError", data |-> data]
  ELSE ExtractCells(CellsOf(resp.containers), data)

(***************************************************************************)
(* Concatenation and the csv file.                                         *)
(***************************************************************************)
RECURSIVE Flatten(_)
Flatten(frames) == IF frames = <<>> THEN <<>> ELSE Head(frames) \o Flatten(Tail(frames))

\* a concatenation that accepts an empty list
ConcatNeverRaises(objs) == FALSE

\* whether pd.concat(objs) raises ValueError: no objects to concatenate
ConcatRaises(objs) == objs = <<>>

\* pd.concat(objs): the rows of every frame in order, each keeping its index
PdConcat(objs) == Flatten(objs)

\* a missing value is written as an empty field
CsvField(v) == IF v = NoneVal THEN <<>> ELSE v

CsvHeader ==
  <<"", "painting_index", "fruit", "authors", "subjects", "year", "image", "thumbnail_image">>

CsvRow(r) ==
  [index |-> r.index,
   fields |-> <<CsvField(r.row.painting_index), CsvField(r.row.fruit), CsvField(r.row.authors),
                CsvField(r.row.subjects), CsvField(r.row.year), CsvField(r.row.image),
                CsvField(r.row.thumbnail_image)>>]

\* all_pomo_df.to_csv(csv_name)
ToCsvFile(path, rows) ==
  [exists |-> TRUE, path |-> path, header |-> CsvHeader,
   rows |-> [i \in DOMAIN rows |-> CsvRow(rows[i])]]

\* get_pomological_data ends without a return statement; main forwards it
ReturnValue(df) == PyNone

(***************************************************************************)
(* The run.                                                                *)
(***************************************************************************)
InitRun ==
  /\ \E o \in Options : csv_name = o.csv_name /\ verbose = o.verbose
  /\ pc = "main"
  /\ img_num = start
  /\ all_pomo_data = <<>>
  /\ all_pomo_df = Unbound
  /\ file = NoFile
  /\ writes = 0
  /\ stdout = <<>>
  /\ retval = Unbound
  /\ exception = ""
  /\ fetched = <<>>

Init ==
  /\ start \in Starts
  /\ end \in Ends
  /\ RangeLen(start, end) <= MaxPages
  /\ InitRun

\* main prints its line and calls get_pomological_data
Main ==
  /\ pc = "main"
  /\ stdout' = Append(stdout, [line |-> "Collecting", args |-> <<start, end>>])
  /\ all_pomo_data' = <<>>
  /\ img_num' = start
  /\ pc' = "loop"
  /\ UNCHANGED <<start, end, csv_name, verbose, all_pomo_df, file, writes, retval, exception,
                 fetched>>

\* range(start, end, 20) yields another offset
LoopContinues == pc = "loop" /\ img_num < end

\* one iteration of the page loop on the response resp
LoopBody(resp) ==
  /\ stdout' = IF verbose > 0
               THEN Append(stdout, [line |-> "Scraping", args |-> <<img_num, img_num + Stride>>])
               ELSE stdout
  /\ fetched' = Append(fetched, [offset |-> img_num, resp |-> resp])
  /\ \E out \in {PageOutcome(resp, all_pomo_data)} :
         IF out.exc # ""
         THEN /\ pc' = "raised"
              /\ exception' = out.exc
              /\ all_pomo_data' = <<>>
              /\ UNCHANGED img_num
         ELSE /\ all_pomo_data' = out.data
              /\ img_num' = img_num + Stride
              /\ UNCHANGED <<pc, exception>>
  /\ UNCHANGED <<start, end, csv_name, verbose, all_pomo_df, file, writes, retval>>

FetchPage == LoopContinues /\ \E resp \in Responses : LoopBody(resp)

ProbePage == LoopContinues /\ \E resp \in ProbeResponses : LoopBody(resp)

\* the loop is over: all_pomo_df = pd.concat(all_pomo_data)
Concat ==
  /\ pc = "loop"
  /\ img_num >= end
  /\ IF ConcatRaises(all_pomo_data)
     THEN /\ pc' = "raised"
          /\ exception' = "ValueError"
          /\ UNCHANGED all_pomo_df
     ELSE /\ all_pomo_df' = DataFrame(PdConcat(all_pomo_data))
          /\ pc' = "to_csv"
          /\ UNCHANGED exception
  /\ UNCHANGED <<start, end, csv_name, verbose, img_num, all_pomo_data, file, writes, stdout,
                 retval, fetched>>

ToCsv ==
  /\ pc = "to_csv"
  /\ file' = ToCsvFile(csv_name, all_pomo_df.rows)
  /\ writes' = writes + 1
  /\ pc' = "print"
  /\ UNCHANGED <<start, end, csv_name, verbose, img_num, all_pomo_data, all_pomo_df, stdout,
                 retval, exception, fetched>>

\* the completion notice, then the return to main's caller
Finish ==
  /\ pc = "print"
  /\ stdout' = Append(stdout, [line |-> "Saved", args |-> <<csv_name>>])
  /\ retval' = ReturnValue(all_pomo_df)
  /\ pc' = "done"
  /\ UNCHANGED <<start, end, csv_name, verbose, img_num, all_pomo_data, all_pomo_df, file,
                 writes, exception, fetched>>

Next == Main \/ FetchPage \/ Concat \/ ToCsv \/ Finish

Spec == Init /\ [][Next]_vars

\* runs over one page whose container holds the cell under test, then a
\* well-formed cell
InitProbe ==
  /\ start = 0
  /\ end = Stride
  /\ InitRun

NextProbe == Main \/ ProbePage \/ Concat \/ ToCsv \/ Finish

SpecProbe == InitProbe /\ [][NextProbe]_vars

(***************************************************************************)
(* What the claims speak of, stated from the pages served.                 *)
(***************************************************************************)
\* the cells of the first results container of the i-th fetched page
PageCells(i) ==
  IF fetched[i].resp.raises \/ fetched[i].resp.containers = <<>> THEN <<>>
  ELSE fetched[i].resp.containers[1]

\* the cells of the first containers of the pages fetched, in scrape order
ScrapedCells == Flatten([i \in DOMAIN fetched |-> PageCells(i)])

NameFound(c) == Len(c.name) >= 1

ImageFound(c) ==
  /\ Len(c.specimen) >= 2
  /\ Len(c.specimen[2]) >= 1
  /\ c.specimen[2][1].hasSrc

\* a page the run cannot extract: no container, or a cell without its image
StructuralError(resp) ==
  /\ ~resp.raises
  /\ \/ resp.containers = <<>>
     \/ \E k \in DOMAIN resp.containers[1] : ~ImageFound(resp.containers[1][k])

\* a page on which the loop body raises
PageAborts(resp) ==
  \/ resp.raises
  \/ resp.containers = <<>>
  \/ \E k \in DOMAIN resp.containers[1] :
       ~ImageFound(resp.containers[1][k]) \/ ~NameFound(resp.containers[1][k])

NonSuccess(resp) == ~resp.raises /\ resp.status \notin 200..299

\* t is the base URL followed by src without its first 3 characters
PrefixedSource(t, src) ==
  /\ Len(t) = Len(IMG_PREFIX) + (IF Len(src) > 3 THEN Len(src) - 3 ELSE 0)
  /\ SubSeq(t, 1, Len(IMG_PREFIX)) = IMG_PREFIX
  /\ \A k \in 4..Len(src) : t[Len(IMG_PREFIX) + k - 3] = src[k]

\* row is the record of cell c: its authors and its thumbnail tell the
\* cells of a page apart
RecordOf(c, row) ==
  /\ row.authors = (IF Len(c.author) >= 2 THEN c.author[2] ELSE NoneVal)
  /\ PrefixedSource(row.thumbnail_image, c.specimen[2][1].src)

Completed == pc \in {"to_csv", "print", "done"}

SavedPrinted == \E i \in DOMAIN stdout : stdout[i].line = "Saved"

\* C1: when the run completes, the offsets fetched are start, start+20, ...
\* below end, the table has one row per cell of the first container of each
\* fetched page, and the rows are in scrape order; the file has the same rows
C1_RowsInScrapeOrder ==
  Completed =>
    \E cells \in {ScrapedCells} :
      /\ Len(fetched) = (IF end <= start THEN 0 ELSE (end - start + 19) \div 20)
      /\ \A i \in DOMAIN fetched : fetched[i].offset = start + 20 * (i - 1)
      /\ Len(all_pomo_df.rows) = Len(cells)
      /\ \A k \in DOMAIN cells : RecordOf(cells[k], all_pomo_df.rows[k].row)
      /\ file.exists =>
           /\ Len(file.rows) = Len(cells)
           /\ \A k \in DOMAIN cells : file.rows[k].fields = CsvRow(all_pomo_df.rows[k]).fields

C1_Witness ==
  /\ pc = "done"
  /\ Len(fetched) = 2
  /\ Len(PageCells(1)) = 2
  /\ PageCells(1)[1] # PageCells(1)[2]
  /\ Len(PageCells(2)) >= 1
  /\ PageCells(2)[1] # PageCells(1)[2]

\* C4: the file is written at most once and only after every offset was
\* fetched and extracted; a structural error on a page ends the run there,
\* with the accumulated records gone and no file written
C4_WriteOnceAtEnd ==
  /\ writes <= 1
  /\ file.exists <=> writes = 1
  /\ file.exists =>
       /\ pc \in {"print", "done"}
       /\ Len(fetched) = RangeLen(start, end)
       /\ \A i \in DOMAIN fetched : ~StructuralError(fetched[i].resp)
  /\ \A i \in DOMAIN fetched :
       StructuralError(fetched[i].resp) =>
         /\ i = Len(fetched)
         /\ pc = "raised"
         /\ all_pomo_data = <<>>
         /\ all_pomo_df = Unbound
         /\ ~file.exists
         /\ ~SavedPrinted

C4_Witness ==
  /\ pc = "raised"
  /\ Len(fetched) = 2
  /\ Len(PageCells(1)) >= 1
  /\ fetched[2].resp.containers # <<>>
  /\ Len(PageCells(2)) = 2
  /\ ImageFound(PageCells(2)[1])
  /\ ~ImageFound(PageCells(2)[2])

\* C6 (as claimed): the i-th row written carries the 0-based index i
C6_IndexIsRowNumber ==
  file.exists => \A i \in DOMAIN file.rows : file.rows[i].index = i - 1

\* C7 (as claimed): a successful run returns the accumulated table
C7_ReturnsTable ==
  pc = "done" => retval = all_pomo_df

C10_EmptyRunFails ==
  /\ Completed => Len(ScrapedCells) >= 1 /\ Len(all_pomo_df.rows) >= 1
  /\ exception = "ValueError" =>
       /\ pc = "raised"
       /\ Len(ScrapedCells) = 0
       /\ Len(fetched) = RangeLen(start, end)
       /\ ~file.exists
       /\ ~SavedPrinted
  /\ \A i \in DOMAIN fetched :
       (~fetched[i].resp.raises /\ fetched[i].resp.containers # <<>> /\ PageCells(i) = <<>>)
         => (i < Len(fetched) \/ pc # "raised" \/ exception = "ValueError")

C10_Witness ==
  /\ exception = "ValueError"
  /\ Len(fetched) = 2
  /\ fetched[1].resp.containers # <<>>
  /\ fetched[2].resp.containers # <<>>

(***************************************************************************)
(* The claims about one cell, over the runs of SpecProbe.                  *)
(***************************************************************************)
\* the cell under test and the dict extracted from it
ProbeCell == PageCells(1)[1]
ProbeRow == all_pomo_data[1][1].row

\* t without its newlines and tabs
WithoutNT(t) == SelectSeq(t, LAMBDA ch : ch \notin {"\n", "\t"})

DotsAt(t) == {i \in 1..Len(t) : t[i] = "."}

MinOf(S) == CHOOSE x \in S : \A y \in S : x <= y

\* the text before the first dot
FirstSegment(t) == IF DotsAt(t) = {} THEN t ELSE SubSeq(t, 1, MinOf(DotsAt(t)) - 1)

\* the text between the first dot and the second, None without a dot
SecondSegment(t) ==
  IF DotsAt(t) = {} THEN NoneVal
  ELSE LET d1 == MinOf(DotsAt(t))
           later == {d \in DotsAt(t) : d > d1}
           d2 == IF later = {} THEN Len(t) + 1 ELSE MinOf(later)
       IN  SubSeq(t, d1 + 1, d2 - 1)

\* the cell with its author, subject and year markers matched twice
Filled(c) ==
  [c EXCEPT !.author = WellFormedCell.author, !.subject = WellFormedCell.subject,
            !.year = WellFormedCell.year]

\* the cell with a name of two segments
Renamed(c) == [c EXCEPT !.name = WellFormedCell.name]

\* C2: authors, subjects and year are each the text of the second match
\* (subjects and year without newlines and tabs), None with fewer than two
\* matches; a None there leaves the other fields as they are and does not
\* stop the run
C2_SecondMatchOrNone ==
  Len(fetched) = 1 =>
    /\ pc = "raised" <=> (~NameFound(ProbeCell) \/ ~ImageFound(ProbeCell))
    /\ pc # "raised" =>
         /\ Len(all_pomo_data) = 2
         /\ ProbeRow.authors =
              (IF Len(ProbeCell.author) >= 2 THEN ProbeCell.author[2] ELSE NoneVal)
         /\ ProbeRow.subjects =
              (IF Len(ProbeCell.subject) >= 2 THEN WithoutNT(ProbeCell.subject[2]) ELSE NoneVal)
         /\ ProbeRow.year =
              (IF Len(ProbeCell.year) >= 2 THEN WithoutNT(ProbeCell.year[2]) ELSE NoneVal)
         /\ LET other == ExtractCell(Filled(ProbeCell)).row
            IN  /\ ProbeRow.painting_index = other.painting_index
                /\ ProbeRow.fruit = other.fruit
                /\ ProbeRow.image = other.image
                /\ ProbeRow.thumbnail_image = other.thumbnail_image

C2_Witness ==
  /\ pc = "done"
  /\ Len(fetched) = 1
  /\ Len(ProbeCell.author) = 1
  /\ Len(ProbeCell.subject) = 2
  /\ Len(ProbeCell.year) = 0
  /\ ProbeRow.authors = NoneVal
  /\ ProbeRow.subjects = <<"A", "B">>
  /\ ProbeRow.year = NoneVal
  /\ Len(file.rows) = 2

\* C3: with a name element, painting_index is the text before the first dot
\* and fruit the text between the first and the second dot, None when the
\* text has no dot; the other fields are extracted all the same
C3_NameSegments ==
  (Len(fetched) = 1 /\ NameFound(ProbeCell)) =>
    /\ pc = "raised" <=> ~ImageFound(ProbeCell)
    /\ pc # "raised" =>
         /\ Len(all_pomo_data) = 2
         /\ ProbeRow.painting_index = FirstSegment(WithoutNT(ProbeCell.name[1]))
         /\ ProbeRow.fruit = SecondSegment(WithoutNT(ProbeCell.name[1]))
         /\ ProbeCell.name[1] = <<"5", "6", "7", "8">> =>
              ProbeRow.painting_index = <<"5", "6", "7", "8">> /\ ProbeRow.fruit = NoneVal
         /\ ProbeCell.name[1] = <<"1", "2", "3", "4", ".", "A", "p", "p", "l", "e">> =>
              /\ ProbeRow.painting_index = <<"1", "2", "3", "4">>
              /\ ProbeRow.fruit = <<"A", "p", "p", "l", "e">>
         /\ LET other == ExtractCell(Renamed(ProbeCell)).row
            IN  /\ ProbeRow.authors = other.authors
                /\ ProbeRow.subjects = other.subjects
                /\ ProbeRow.year = other.year
                /\ ProbeRow.image = other.image
                /\ ProbeRow.thumbnail_image = other.thumbnail_image

C3_Witness ==
  /\ pc = "done"
  /\ Len(fetched) = 1
  /\ ProbeCell.name[1] = <<"5", "6", "7", "8">>
  /\ ProbeRow.painting_index = <<"5", "6", "7", "8">>
  /\ ProbeRow.fruit = NoneVal
  /\ ProbeRow.authors # NoneVal
  /\ ProbeRow.image # NoneVal

\* C5 (as claimed): a cell without its name element gives a record whose
\* painting_index and fruit are None, and the run goes on to the next cell
C5_MissingNameRecovered ==
  (Len(fetched) = 1 /\ ~NameFound(ProbeCell) /\ ImageFound(ProbeCell)) =>
    /\ pc # "raised"
    /\ Len(all_pomo_data) = 2
    /\ ProbeRow.painting_index = NoneVal
    /\ ProbeRow.fruit = NoneVal

\* where "thumbnail" starts in t
OccurrencesIn(t) ==
  {i \in 1..Len(t) : i + 8 <= Len(t) /\ SubSeq(t, i, i + 8) = Thumbnail}

\* how many characters the occurrences occ ending before position j lose
ShiftAt(occ, j) == 3 * Cardinality({i \in occ : i + 9 <= j})

\* im is t with every occurrence of "thumbnail" replaced by "screen"
EveryOccurrenceReplaced(t, im) ==
  \E occ \in {OccurrencesIn(t)} :
    /\ Len(im) = Len(t) - 3 * Cardinality(occ)
    /\ \A i \in occ : SubSeq(im, i - ShiftAt(occ, i), i - ShiftAt(occ, i) + 5) = Screen
    /\ \A j \in 1..Len(t) :
         (\A i \in occ : j < i \/ j > i + 8) => im[j - ShiftAt(occ, j)] = t[j]

\* im is t with one "thumbnail" segment replaced by "screen"
OneSubstitution(t, im) ==
  \E i \in OccurrencesIn(t) :
    im = SubSeq(t, 1, i - 1) \o Screen \o SubSeq(t, i + 9, Len(t))

\* the first row of the table a run ends with
TableRow == all_pomo_df.rows[1].row

\* C9 (as claimed): image is thumbnail_image with "thumbnail" replaced by
\* "screen", and differs from it only in the substitution of one segment,
\* whatever the source attribute is
C9_OneSegmentDiffers ==
  (Len(fetched) = 1 /\ pc = "done") =>
    /\ PrefixedSource(TableRow.thumbnail_image, ProbeCell.specimen[2][1].src)
    /\ \/ TableRow.image = TableRow.thumbnail_image
       \/ OneSubstitution(TableRow.thumbnail_image, TableRow.image)

\* C9 (amended): image is thumbnail_image with every occurrence of
\* "thumbnail" replaced by "screen": identical without an occurrence, one
\* substituted segment with exactly one, one per occurrence with several
C9_EveryOccurrence ==
  (Len(fetched) = 1 /\ pc = "done") =>
    \E n \in {Cardinality(OccurrencesIn(TableRow.thumbnail_image))} :
      /\ PrefixedSource(TableRow.thumbnail_image, ProbeCell.specimen[2][1].src)
      /\ EveryOccurrenceReplaced(TableRow.thumbnail_image, TableRow.image)
      /\ OccurrencesIn(TableRow.image) = {}
      /\ n = 0 => TableRow.image = TableRow.thumbnail_image
      /\ n = 1 => OneSubstitution(TableRow.thumbnail_image, TableRow.image)
      /\ n >= 2 =>
           /\ TableRow.image # TableRow.thumbnail_image
           /\ ~OneSubstitution(TableRow.thumbnail_image, TableRow.image)

C9_Witness ==
  /\ pc = "done"
  /\ Len(fetched) = 1
  /\ ProbeCell.specimen[2][1].src = ChunkRel \o Thumbnail \o ChunkFile
  /\ TableRow.thumbnail_image =
       IMG_PREFIX \o <<"i", "m", "a", "g", "e", "s", "/">> \o Thumbnail \o ChunkFile
  /\ TableRow.image = IMG_PREFIX \o <<"i", "m", "a", "g", "e", "s", "/">> \o Screen \o ChunkFile
  /\ file.rows[1].fields[6] = TableRow.image

====
